---- MODULE Spec2Model ----
(***************************************************************************)
(* Logic-gate classifier (najibarif/logicGate): the capture -> preprocess  *)
(* -> inference -> ranking pipeline and the live-loop lifecycle of the     *)
(* React component App, in its auto-start variant (src/App.js) and its     *)
(* manual start/stop variant (src/unnamed/part_000).                       *)
(*                                                                         *)
(* Every asynchronous function of the component is a set of activations,   *)
(* each suspended at one of its awaits; activations of one function at one *)
(* await carry no local data, so they are counted.  One action is one      *)
(* synchronous run of JavaScript: from a command or a resumed await to the *)
(* next await or return.                                                   *)
(***************************************************************************)
EXTENDS Integers, Sequences, FiniteSets, TLC

\* ---------------------------------------------------------------- bounds
MaxLoads == 2      \* underlying model loads started in one behaviour
MaxActive == 2     \* activations and timers alive at one time when a command is accepted
MaxProb == 2       \* probabilities are 0..MaxProb (scaled)
MaxOut == 4        \* widest model output vector
MaxStreams == 2    \* camera streams requested in one behaviour
CoarseFrames == 2  \* display frames delivered in the lifecycle specifications
CoarseTickMs == 100 \* their refresh period
StartNow == 1000   \* Date.now() at mount

\* ------------------------------------------------------------- constants
NULL == 0
NONE == -1
LABELS == <<"OR", "AND", "NOT">>
\* the template literal `class_${i}`, tabulated for the indices in range
FallbackName == <<"class_0", "class_1", "class_2", "class_3", "class_4", "class_5">>

VARIABLES
    platform,         \* Platform.OS: "web" | "native"
    variant,          \* "auto" (App.js) | "manual" (part_000) | "snapshot" (part_001)
    outs,             \* the probability vectors the loaded model can return
    mounted,          \* the component is mounted (cleanup has not run)
    teardownOrder,    \* what the cleanup did, in the order it did it (<<>> before it ran)
    mountPc,          \* part_001: where the mount effect's async function stands
    loading,          \* part_001: useState loading (takeAndClassify is busy)
    hasPermission,    \* useState: "null" | "true" | "false"
    cameraRef,        \* cameraRef.current is non-null
    videoRef,         \* videoRef.current is non-null (the <video> is rendered)
    srcObject,        \* videoRef.current.srcObject is set
    webStreamRef,     \* webStreamRef.current: NULL or a stream
    openStreams,      \* streams obtained whose tracks have not been stopped
    streamsMade,      \* streams getUserMedia has produced so far
    webNeedsStart,    \* useState webNeedsStart
    videoReady,       \* useState videoReady
    cameraReady,      \* useState cameraReady
    modelRef,         \* modelRef.current: NULL or a model handle
    modelLoading,     \* useState modelLoading
    loadModelSees,    \* modelLoading as captured by the current loadModel closure
    running,          \* liveRef.current.running
    liveRunning,      \* useState liveRunning
    timeoutId,        \* nativeLoopRef.current.timeoutId (NULL or a timer id)
    timers,           \* host timers pending (setTimeout not yet fired or cleared)
    rafId,            \* webLoopRef.current.rafId (NULL or a request id)
    rafs,             \* animation-frame callbacks pending
    lastRun,          \* webLoopRef.current.lastRun
    now,              \* Date.now()
    workRuns,         \* steps of the web loop that went past the throttle so far
    tickMs,           \* the display's refresh period
    horizon,          \* the time up to which frames are delivered
    gumButton,        \* startWebCamera (from its button) awaiting getUserMedia
    gumStart,         \* startWebCamera (from startLive) awaiting getUserMedia
    playButton,       \* startWebCamera (from its button) awaiting video.play()
    playStart,        \* startWebCamera (from startLive) awaiting video.play()
    loopInflight,     \* runNativeLoop activations awaiting takePictureAsync
    startsAwaitLoad,  \* start activations awaiting their loadModel
    snapsAwaitLoad,   \* snapshot activations awaiting their loadModel
    snapsAwaitCapture,\* snapshot activations awaiting takePictureAsync
    predictions,      \* useState predictions: the published ranking
    liveTensors,      \* tensors allocated and not disposed, by role
    created,          \* model handles the loader has produced so far
    disposed,         \* model handles whose dispose() has been called
    loaderCalls,      \* invocations of the underlying loader (tf.loadLayersModel path)
    loadReturned,     \* what a loadModel call returned in the last step (NONE: no return)
    emitted,          \* the alert() and console messages of the last step
    prepStage,        \* the preprocessing pipeline: which tensor it holds ("none": not followed)
    tensor            \* that tensor: shape, and values as numerators over one denominator

prepVars == <<prepStage, tensor>>
configVars == <<platform, variant, outs, tickMs, horizon, prepVars>>
soloVars == <<mountPc, loading>>
permVars == <<hasPermission, cameraRef, cameraReady>>
cameraVars == <<videoRef, srcObject, webStreamRef, openStreams, streamsMade,
                webNeedsStart, videoReady, gumButton, gumStart, playButton, playStart>>
clockVars == <<lastRun, now, workRuns>>
modelVars == <<modelRef, modelLoading, created, disposed, loaderCalls>>
loopVars == <<running, liveRunning, loopInflight, rafs, rafId>>
timerVars == <<timeoutId, timers>>
snapVars == <<snapsAwaitLoad, snapsAwaitCapture>>
resultVars == <<predictions, liveTensors>>

vars == <<configVars, soloVars, teardownOrder, mounted, permVars, cameraVars, clockVars, modelVars, loadModelSees,
          loopVars, timerVars, startsAwaitLoad, snapVars, resultVars, loadReturned,
          emitted>>

\* ------------------------------------------------------- preprocessing
\* const IMAGE_SIZE = 224;
IMAGE_SIZE == 224

\* A tensor is its shape and its values; a value is data[r][q][k] / den, the
\* numerators kept as integers so that the arithmetic is exact.
NoTensor == [shape |-> <<>>, den |-> 1, data |-> <<>>]
PrepIdle == prepStage = "none" /\ tensor = NoTensor

\* decoded frames: height x width x 3 channels of 8-bit values
FrameShapes == {<<1, 1, 3>>, <<1, 2, 3>>, <<2, 1, 3>>, <<2, 2, 3>>, <<1, 3, 3>>, <<3, 1, 3>>}
Palette == {<<0, 128, 255>>, <<255, 0, 64>>}
Frames ==
    UNION {[shape : {s}, den : {1},
            data : [0..s[1]-1 -> [0..s[2]-1 ->
                       {[k \in 0..s[3]-1 |-> c[k+1]] : c \in Palette}]]] : s \in FrameShapes}

\* tf.image.resizeBilinear(t, [S, S]) (alignCorners false): output pixel i reads
\* the source coordinate i * n / S, between its floor and its ceiling (capped at
\* n - 1), weighted by the fractional part; columns first, then rows
resizeBilinear(t, S) ==
    LET h == t.shape[1]
        w == t.shape[2]
        c == t.shape[3]
        src(i, n) ==
            LET lo == (i * n) \div S
                fr == (i * n) % S
                hi == IF fr > 0 /\ lo + 1 <= n - 1 THEN lo + 1 ELSE lo
            IN  <<lo, hi, fr>>
        rows == [r \in 0..S-1 |-> src(r, h)]
        cols == [q \in 0..S-1 |-> src(q, w)]
        lerp(a, b, fr) == a * S + (b - a) * fr
        at(R, Q, k) ==
            lerp(lerp(t.data[R[1]][Q[1]][k], t.data[R[1]][Q[2]][k], Q[3]),
                 lerp(t.data[R[2]][Q[1]][k], t.data[R[2]][Q[2]][k], Q[3]), R[3])
    IN  [shape |-> <<S, S, c>>, den |-> t.den * S * S,
         data |-> [r \in 0..S-1 |-> [q \in 0..S-1 |->
                      [k \in 0..c-1 |-> at(rows[r], cols[q], k)]]]]

\* t.div(d): every value divided by d
div_keepsScale(t, d) == t
div(t, d) == [t EXCEPT !.den = t.den * d]

\* t.expandDims(0): a leading dimension of 1, the values untouched
expandDims(t) == [t EXCEPT !.shape = <<1>> \o t.shape]

\* ------------------------------------------------------- result ranking
\* probs.map((p, i) => ({ className: LABELS[i] || `class_${i}`, probability: p }))
className_oneBased(k) == IF k <= Len(LABELS) THEN LABELS[k] ELSE FallbackName[k + 1]
className(k) == IF k <= Len(LABELS) THEN LABELS[k] ELSE FallbackName[k]

\* a mapping that stops at the last configured label
mapPredictions_labelled(probs) ==
    [k \in 1..(IF Len(probs) < Len(LABELS) THEN Len(probs) ELSE Len(LABELS)) |->
        [className |-> className(k), probability |-> probs[k]]]

mapPredictions(probs) ==
    [k \in 1..Len(probs) |-> [className |-> className(k), probability |-> probs[k]]]

\* (a, b) => b.probability - a.probability
compareFn_asc(a, b) == a.probability - b.probability
compareFn(a, b) == b.probability - a.probability

\* Array.prototype.sort is stable: x goes before the first y that must follow it
RECURSIVE insertSorted(_, _)
insertSorted(s, x) ==
    IF s = <<>> THEN <<x>>
    ELSE IF compareFn(s[1], x) > 0 THEN <<x>> \o s
    ELSE <<s[1]>> \o insertSorted(Tail(s), x)

RECURSIVE sort(_)
sort(arr) ==
    IF arr = <<>> THEN <<>>
    ELSE insertSorted(sort(SubSeq(arr, 1, Len(arr) - 1)), arr[Len(arr)])

rank(probs) == sort(mapPredictions(probs))

\* the index (1-based) a published entry had in the model output
RECURSIVE indexOfName(_, _)
indexOfName(name, k) ==
    IF k > MaxOut + 2 THEN 0
    ELSE IF className(k) = name THEN k
    ELSE indexOfName(name, k + 1)

\* ------------------------------------------------------------ helpers
\* a state setter of an unmounted component changes nothing
setState(cur, new) == IF mounted THEN new ELSE cur

LoadsInFlight == startsAwaitLoad + snapsAwaitLoad
CapturesInFlight == loopInflight + snapsAwaitCapture
CameraCalls == gumButton + gumStart + playButton + playStart
Activations == LoadsInFlight + CapturesInFlight + CameraCalls
               + Cardinality(timers) + Cardinality(rafs)

\* setTimeout returns an id no live timer and no stored handle carries
freshTimer == CHOOSE i \in 1..(Cardinality(timers) + 2) : i \notin timers /\ i # timeoutId
\* requestAnimationFrame returns an id no pending request carries
freshRaf == CHOOSE i \in 1..(Cardinality(rafs) + 1) : i \notin rafs

\* how one capture-and-classify can go: where it fails, or the vector predicted
FailKinds == {"captureFail", "decodeThrows", "noDecoder", "predictThrows", "noData"}
Outcomes == {[kind |-> k, probs |-> <<>>] : k \in FailKinds}
            \cup {[kind |-> "data", probs |-> p] : p \in outs}
\* on the web there is no capture and no decoding: fromPixels, predict, dataSync
WebOutcomes == {o \in Outcomes : o.kind \in {"predictThrows", "noData", "data"}}

AllTensors == {"imageTensor", "resized", "divided", "normalized"}

\* -------------------------------------------------------- model loader
\* loadModel, first line: return modelRef.current without loading
loadModelSkips(ref, sees) == ref # NULL \/ sees

\* loadModel, finally: setModelLoading(false) whether the load succeeded or not
loadingAfter_onSuccessOnly(ok) == ~ok
loadingAfter(ok) == FALSE

\* ---------------------------------------------------------------- loops
\* webLoopRef.current.frameIntervalMs as startLiveInternal / startLive set it
FrameIntervalAuto == 180
FrameIntervalManual == 200
frameIntervalMs == IF variant = "auto" THEN FrameIntervalAuto ELSE FrameIntervalManual

\* runNativeLoop, first line: a capture is issued only with camera and model
runNativeLoopStarts(cam, mdl) == cam /\ mdl # NULL

\* runNativeLoop, finally: re-arm while the session runs, whether or not the
\* body threw
rearms_inTry(run, threw) == run /\ ~threw
rearms(run, threw) == run

\* what the native inference leaves behind for one capture outcome o with the
\* model reference mdl: the tensors left live, whether it threw, what it publishes
inferNative(mdl, o) ==
    IF o.kind \in {"captureFail", "decodeThrows", "noDecoder"}
    THEN [left |-> {}, threw |-> (o.kind = "captureFail"), publish |-> FALSE,
          ranking |-> <<>>]
    ELSE IF mdl = NULL /\ variant = "manual"
    THEN \* predictFromTensor returns null without predicting
         [left |-> {"divided"}, threw |-> FALSE, publish |-> FALSE, ranking |-> <<>>]
    ELSE IF mdl = NULL \/ o.kind = "predictThrows"
    THEN \* predict throws inside tf.tidy: tf.dispose([...]) is skipped
         [left |-> AllTensors, threw |-> TRUE, publish |-> FALSE, ranking |-> <<>>]
    ELSE IF o.kind = "noData"
    THEN [left |-> {"divided"}, threw |-> FALSE, publish |-> FALSE, ranking |-> <<>>]
    ELSE [left |-> {"divided"}, threw |-> FALSE, publish |-> TRUE, ranking |-> rank(o.probs)]

\* the web inference runs wholly inside tf.tidy: nothing is left behind
inferWeb(o) ==
    IF o.kind = "predictThrows"
    THEN [left |-> {}, threw |-> TRUE, publish |-> FALSE, ranking |-> <<>>]
    ELSE IF o.kind = "noData"
    THEN [left |-> {}, threw |-> FALSE, publish |-> FALSE, ranking |-> <<>>]
    ELSE [left |-> {}, threw |-> FALSE, publish |-> TRUE, ranking |-> rank(o.probs)]

\* the console.warn calls of one native loop iteration
loopLog(o, r) ==
    IF o.kind = "decodeThrows"
    THEN {"native decode error", "native: cannot decode image to tensor"}
    ELSE IF o.kind = "noDecoder" THEN {"native: cannot decode image to tensor"}
    ELSE IF r.threw THEN {"runNativeLoop error"}
    ELSE {}

\* the model release of the cleanup: dispose what modelRef holds, if anything,
\* and clear the reference
releaseModel_keepsRef(ref, disp) ==
    [modelRef |-> ref, disposed |-> IF ref # NULL THEN disp \cup {ref} ELSE disp]
releaseModel(ref, disp) ==
    [modelRef |-> NULL, disposed |-> IF ref # NULL THEN disp \cup {ref} ELSE disp]

\* stopWebLoop
stopWebLoop ==
    /\ rafs' = IF rafId # NULL THEN rafs \ {rafId} ELSE rafs
    /\ rafId' = NULL

\* stopNativeLoop
stopNativeLoop ==
    /\ timers' = IF timeoutId # NULL THEN timers \ {timeoutId} ELSE timers
    /\ timeoutId' = NULL

\* the tail of start once a model is in hand: set the flag, start the loop
\* (runWebLoop requests the first frame, runNativeLoop issues the first capture)
goLive(mdl) ==
    /\ running' = TRUE
    /\ liveRunning' = setState(liveRunning, TRUE)
    /\ IF platform = "web"
       THEN /\ rafs' = rafs \cup {freshRaf}
            /\ rafId' = freshRaf
            /\ UNCHANGED loopInflight
       ELSE /\ loopInflight' = IF runNativeLoopStarts(cameraRef, mdl)
                               THEN loopInflight + 1 ELSE loopInflight
            /\ UNCHANGED <<rafs, rafId>>

\* if (!m) { alert('Gagal memuat model.'); return ... }: the start goes on only
\* with a model in hand
startProceeds_unchecked(m) == TRUE
startProceeds(m) == m # NULL

\* let m = modelRef.current; if (!m) m = await loadModel(); if (!m) alert ...
\* pre: the messages this step has emitted before
ensureModelThenLive(pre) ==
    IF modelRef # NULL
    THEN /\ goLive(modelRef)
         /\ loadReturned' = NONE
         /\ emitted' = pre
         /\ UNCHANGED <<modelLoading, loaderCalls, startsAwaitLoad>>
    ELSE IF loadModelSkips(modelRef, loadModelSees)
    THEN /\ loadReturned' = modelRef
         /\ UNCHANGED <<modelLoading, loaderCalls, startsAwaitLoad>>
         /\ IF startProceeds(modelRef)
            THEN goLive(modelRef) /\ emitted' = pre
            ELSE /\ emitted' = pre \cup {"Gagal memuat model."}
                 /\ UNCHANGED loopVars
    ELSE /\ loaderCalls < MaxLoads
         /\ modelLoading' = setState(modelLoading, TRUE)
         /\ loaderCalls' = loaderCalls + 1
         /\ startsAwaitLoad' = startsAwaitLoad + 1
         /\ loadReturned' = NONE
         /\ emitted' = pre
         /\ UNCHANGED loopVars

\* a step that starts nothing and loads nothing
noStart(msgs) ==
    /\ emitted' = msgs
    /\ loadReturned' = NONE
    /\ UNCHANGED <<loopVars, modelLoading, loaderCalls, startsAwaitLoad>>

\* startLiveInternal (App.js)
startLiveInternal_noGuard(pre) == ensureModelThenLive(pre)
startLiveInternal(pre) ==
    IF running THEN noStart(pre) ELSE ensureModelThenLive(pre)

\* startLive (part_000) from its second camera check on, after startWebCamera
startLiveAfterCamera(pre) ==
    IF ~videoRef' \/ ~srcObject'
    THEN noStart(pre \cup {"Kamera belum aktif. Tekan Mulai Kamera terlebih dahulu."})
    ELSE ensureModelThenLive(pre)

\* ------------------------------------------------------------ rendering
\* the render gates: with hasPermission null or false the component returns a
\* bare message and none of its controls
uiRendered == hasPermission = "true"

\* a control that invokes start is on screen: the Mulai Live button (part_000),
\* the Mulai Kamera overlay over the <video> (App.js, web, while webNeedsStart)
startOffered ==
    /\ uiRendered
    /\ IF variant = "manual" THEN TRUE ELSE platform = "web" /\ webNeedsStart

\* the model status the header shows: modelLoading ? 'Memuat model…' :
\* modelRef.current ? 'Model siap' : 'Belum dimuat'
modelState ==
    IF modelLoading THEN "loading"
    ELSE IF modelRef # NULL THEN "ready"
    ELSE "unloaded"

\* ------------------------------------------------------------- commands
\* startLive (part_000)
startLive ==
    /\ mounted /\ variant = "manual" /\ hasPermission = "true"
    /\ Activations < MaxActive
    /\ IF running
       THEN noStart({}) /\ UNCHANGED gumStart
       ELSE IF platform = "web"
       THEN IF ~videoRef \/ ~srcObject
            THEN /\ streamsMade + gumButton + gumStart < MaxStreams
                 /\ gumStart' = gumStart + 1
                 /\ noStart({})
            ELSE ensureModelThenLive({}) /\ UNCHANGED gumStart
       ELSE IF ~cameraRef
            THEN noStart({"Kamera native belum siap."}) /\ UNCHANGED gumStart
            ELSE ensureModelThenLive({}) /\ UNCHANGED gumStart
    /\ UNCHANGED <<configVars, soloVars, teardownOrder, mounted, permVars, videoRef, srcObject, webStreamRef,
                   openStreams, streamsMade, webNeedsStart, videoReady, gumButton,
                   playButton, playStart, clockVars, modelRef, created, disposed,
                   loadModelSees, timerVars, snapVars, resultVars>>

\* startWebCamera from the "Mulai Kamera" button: up to getUserMedia
startWebCamera ==
    /\ mounted /\ platform = "web" /\ hasPermission = "true" /\ webNeedsStart
    /\ Activations < MaxActive
    /\ streamsMade + gumButton + gumStart < MaxStreams
    /\ gumButton' = gumButton + 1
    /\ noStart({})
    /\ UNCHANGED <<configVars, soloVars, teardownOrder, mounted, permVars, videoRef, srcObject, webStreamRef,
                   openStreams, streamsMade, webNeedsStart, videoReady, gumStart,
                   playButton, playStart, clockVars, modelRef, created, disposed,
                   loadModelSees, timerVars, snapVars, resultVars>>

\* handleCameraReady: App.js starts the session, part_000 only records readiness
handleCameraReady ==
    /\ mounted /\ platform = "native" /\ cameraRef /\ ~cameraReady
    /\ cameraReady' = TRUE
    /\ IF variant = "auto" THEN startLiveInternal({}) ELSE noStart({})
    /\ UNCHANGED <<configVars, soloVars, teardownOrder, mounted, hasPermission, cameraRef, cameraVars, clockVars,
                   modelRef, created, disposed, loadModelSees, timerVars, snapVars,
                   resultVars>>

\* stopLive (part_000)
stopLive_toggles ==
    /\ mounted /\ variant = "manual" /\ hasPermission = "true"
    /\ running' = ~running
    /\ liveRunning' = setState(liveRunning, ~liveRunning)
    /\ stopWebLoop
    /\ stopNativeLoop
    /\ loadReturned' = NONE
    /\ emitted' = {}
    /\ UNCHANGED <<configVars, soloVars, teardownOrder, mounted, permVars, cameraVars, clockVars, modelVars,
                   loadModelSees, loopInflight, startsAwaitLoad, snapVars, resultVars>>

stopLive ==
    /\ mounted /\ variant = "manual" /\ hasPermission = "true"
    /\ running' = FALSE
    /\ liveRunning' = setState(liveRunning, FALSE)
    /\ stopWebLoop
    /\ stopNativeLoop
    /\ loadReturned' = NONE
    /\ emitted' = {}
    /\ UNCHANGED <<configVars, soloVars, teardownOrder, mounted, permVars, cameraVars, clockVars, modelVars,
                   loadModelSees, loopInflight, startsAwaitLoad, snapVars, resultVars>>

\* ------------------------------------------------------------- snapshot
\* the console output of one snapshot; a throw is an unhandled rejection
snapshotLog(o, r) ==
    IF o.kind = "decodeThrows" THEN {"snapshot decode error"}
    ELSE IF r.threw THEN {"unhandled rejection"}
    ELSE {}

\* handleSnapshot past the model check: classify the video frame at once (web)
\* or issue one capture (native)
snapshotProceeds(pre) ==
    IF platform = "web"
    THEN /\ UNCHANGED <<snapsAwaitCapture, liveTensors>>
         /\ IF ~videoRef
            THEN /\ emitted' = pre \cup {"Video belum siap"}
                 /\ UNCHANGED predictions
            ELSE \E o \in WebOutcomes :
                   LET r == inferWeb(o) IN
                   /\ predictions' = IF r.publish THEN setState(predictions, r.ranking)
                                     ELSE predictions
                   /\ emitted' = pre \cup snapshotLog(o, r)
    ELSE /\ snapsAwaitCapture' = IF cameraRef THEN snapsAwaitCapture + 1
                                 ELSE snapsAwaitCapture
         /\ emitted' = pre
         /\ UNCHANGED <<predictions, liveTensors>>

\* the snapshot never touches liveRef, webLoopRef or nativeLoopRef: the running
\* flag, the loop's handles and the throttle clock are left alone
snapshotKeeps_throttled ==
    /\ lastRun' = now
    /\ UNCHANGED <<now, workRuns, loopVars, timerVars>>
snapshotKeeps == UNCHANGED <<clockVars, loopVars, timerVars>>

\* handleSnapshot (App.js) / the Snapshot button's handler (part_000)
handleSnapshot ==
    /\ mounted /\ hasPermission = "true"
    /\ Activations < MaxActive
    /\ IF modelRef # NULL
       THEN /\ snapshotProceeds({})
            /\ loadReturned' = NONE
            /\ UNCHANGED <<modelLoading, loaderCalls, snapsAwaitLoad>>
       ELSE IF loadModelSkips(modelRef, loadModelSees)
       THEN \* loadModel returned null and modelRef.current is still null: return
            /\ loadReturned' = modelRef
            /\ emitted' = {}
            /\ UNCHANGED <<modelLoading, loaderCalls, snapVars, resultVars>>
       ELSE /\ loaderCalls < MaxLoads
            /\ modelLoading' = setState(modelLoading, TRUE)
            /\ loaderCalls' = loaderCalls + 1
            /\ snapsAwaitLoad' = snapsAwaitLoad + 1
            /\ loadReturned' = NONE
            /\ emitted' = {}
            /\ UNCHANGED <<snapsAwaitCapture, resultVars>>
    /\ snapshotKeeps
    /\ UNCHANGED <<configVars, soloVars, teardownOrder, mounted, permVars, cameraVars, modelRef, created,
                   disposed, loadModelSees, startsAwaitLoad>>

\* a snapshot's loadModel settles; the snapshot goes on if modelRef.current is set
snapLoadSettles ==
    /\ snapsAwaitLoad > 0
    /\ snapsAwaitLoad' = snapsAwaitLoad - 1
    /\ \E ok \in BOOLEAN :
         /\ modelLoading' = setState(modelLoading, loadingAfter(ok))
         /\ IF ok
            THEN /\ created' = created + 1
                 /\ modelRef' = created + 1
                 /\ loadReturned' = created + 1
                 /\ snapshotProceeds({})
            ELSE /\ loadReturned' = NULL
                 /\ UNCHANGED <<created, modelRef>>
                 /\ IF modelRef # NULL
                    THEN snapshotProceeds({"loadModel error",
                                           "Gagal memuat model. Lihat console."})
                    ELSE /\ emitted' = {"loadModel error",
                                        "Gagal memuat model. Lihat console."}
                         /\ UNCHANGED <<snapsAwaitCapture, resultVars>>
    /\ snapshotKeeps
    /\ UNCHANGED <<configVars, soloVars, teardownOrder, mounted, permVars, cameraVars, disposed,
                   loaderCalls, loadModelSees, startsAwaitLoad>>

\* takePictureAsync of a snapshot settles: decode, infer, publish
snapCaptureSettles ==
    /\ snapsAwaitCapture > 0
    /\ snapsAwaitCapture' = snapsAwaitCapture - 1
    /\ \E o \in Outcomes :
         LET r == inferNative(modelRef, o) IN
         /\ liveTensors' = liveTensors \cup r.left
         /\ predictions' = IF r.publish THEN setState(predictions, r.ranking)
                           ELSE predictions
         /\ emitted' = snapshotLog(o, r)
    /\ loadReturned' = NONE
    /\ snapshotKeeps
    /\ UNCHANGED <<configVars, soloVars, teardownOrder, mounted, permVars, cameraVars, modelVars,
                   loadModelSees, startsAwaitLoad, snapsAwaitLoad>>

\* ------------------------------------------------- resumed continuations
\* a start's loadModel settles: the load's tail, then the start's tail
startLoadSettles ==
    /\ startsAwaitLoad > 0
    /\ startsAwaitLoad' = startsAwaitLoad - 1
    /\ \E ok \in BOOLEAN :
         /\ modelLoading' = setState(modelLoading, loadingAfter(ok))
         /\ IF ok
            THEN /\ created' = created + 1
                 /\ modelRef' = created + 1
                 /\ loadReturned' = created + 1
                 /\ goLive(created + 1)
                 /\ emitted' = {}
            ELSE /\ emitted' = {"loadModel error", "Gagal memuat model. Lihat console.",
                                "Gagal memuat model."}
                 /\ loadReturned' = NULL
                 /\ UNCHANGED <<created, modelRef, loopVars>>
    /\ UNCHANGED <<configVars, soloVars, teardownOrder, mounted, permVars, cameraVars, clockVars, disposed,
                   loaderCalls, loadModelSees, timerVars, snapVars, resultVars>>

\* getUserMedia of a startWebCamera settles
gumSettles(fromStart) ==
    /\ IF fromStart THEN gumStart > 0 ELSE gumButton > 0
    /\ gumStart' = IF fromStart THEN gumStart - 1 ELSE gumStart
    /\ gumButton' = IF fromStart THEN gumButton ELSE gumButton - 1
    /\ \E ok \in BOOLEAN :
         IF ok
         THEN /\ streamsMade' = streamsMade + 1
              /\ openStreams' = openStreams \cup {streamsMade + 1}
              /\ webStreamRef' = streamsMade + 1
              /\ hasPermission' = setState(hasPermission, "true")
              /\ webNeedsStart' = setState(webNeedsStart, FALSE)
              /\ UNCHANGED videoRef
              /\ IF videoRef
                 THEN \* attach the stream and await video.play()
                      /\ srcObject' = TRUE
                      /\ playStart' = IF fromStart THEN playStart + 1 ELSE playStart
                      /\ playButton' = IF fromStart THEN playButton ELSE playButton + 1
                      /\ noStart({})
                 ELSE /\ UNCHANGED <<srcObject, playStart, playButton>>
                      /\ IF variant = "auto" THEN startLiveInternal({})
                         ELSE IF fromStart THEN startLiveAfterCamera({})
                         ELSE noStart({})
         ELSE \* the catch: permission state false takes the <video> off the screen
              /\ webNeedsStart' = setState(webNeedsStart, TRUE)
              /\ hasPermission' = setState(hasPermission, "false")
              /\ videoRef' = IF mounted THEN FALSE ELSE videoRef
              /\ srcObject' = IF mounted THEN FALSE ELSE srcObject
              /\ UNCHANGED <<streamsMade, openStreams, webStreamRef, playStart, playButton>>
              /\ LET msgs == {"startWebCamera error",
                              "Tidak bisa mengakses kamera. Periksa permission di browser."}
                 IN IF variant = "manual" /\ fromStart
                    THEN startLiveAfterCamera(msgs)
                    ELSE noStart(msgs)
    /\ UNCHANGED <<configVars, soloVars, teardownOrder, mounted, cameraRef, cameraReady, videoReady, clockVars,
                   modelRef, created, disposed, loadModelSees, timerVars, snapVars,
                   resultVars>>

\* video.play() of a startWebCamera settles
playSettles(fromStart) ==
    /\ IF fromStart THEN playStart > 0 ELSE playButton > 0
    /\ playStart' = IF fromStart THEN playStart - 1 ELSE playStart
    /\ playButton' = IF fromStart THEN playButton ELSE playButton - 1
    /\ UNCHANGED <<videoRef, srcObject>>
    /\ \E ok \in BOOLEAN :
         IF ok
         THEN /\ videoReady' = setState(videoReady, TRUE)
              /\ UNCHANGED webNeedsStart
              /\ IF variant = "auto" THEN startLiveInternal({})
                 ELSE IF fromStart THEN startLiveAfterCamera({})
                 ELSE noStart({})
         ELSE /\ webNeedsStart' = setState(webNeedsStart, TRUE)
              /\ UNCHANGED videoReady
              /\ IF variant = "manual" /\ fromStart
                 THEN startLiveAfterCamera({"video play failed"})
                 ELSE noStart({"video play failed"})
    /\ UNCHANGED <<configVars, soloVars, teardownOrder, mounted, permVars, webStreamRef, openStreams, streamsMade,
                   gumButton, gumStart, clockVars, modelRef, created, disposed,
                   loadModelSees, timerVars, snapVars, resultVars>>

\* step: the throttle, at time t
stepDue_noThrottle(t) == TRUE
stepDue(t) == ~(t - lastRun < frameIntervalMs)
\* step: if (!videoRef.current || !modelRef.current) return
stepSourceReady == videoRef /\ modelRef # NULL

\* one display frame: every pending callback runs step; each re-arms first, and
\* the first one that finds the interval elapsed does the work
animationFrame(o) ==
    /\ rafs # {}
    /\ now + tickMs <= horizon
    /\ now' = now + tickMs
    /\ rafs' = 1..Cardinality(rafs)
    /\ rafId' = Cardinality(rafs)
    /\ IF ~stepDue(now + tickMs)
       THEN UNCHANGED <<lastRun, workRuns, predictions>> /\ emitted' = {}
       ELSE /\ lastRun' = now + tickMs
            /\ workRuns' = workRuns + 1
            /\ IF ~stepSourceReady
               THEN UNCHANGED predictions /\ emitted' = {}
               ELSE LET r == inferWeb(o) IN
                    /\ predictions' = IF r.publish
                                      THEN setState(predictions, r.ranking)
                                      ELSE predictions
                    /\ emitted' = IF r.threw THEN {"webLoop predict error"} ELSE {}
    /\ loadReturned' = NONE
    /\ UNCHANGED <<configVars, soloVars, teardownOrder, mounted, permVars, cameraVars, modelVars, loadModelSees,
                   running, liveRunning, loopInflight, timerVars, startsAwaitLoad,
                   snapVars, liveTensors>>

\* setTimeout is one-shot: the timer that fired is no longer pending
afterFire_interval(ts, id) == ts
afterFire(ts, id) == ts \ {id}

\* a pending timer fires: runNativeLoop runs up to its await
timerFires ==
    \E id \in timers :
        /\ timers' = afterFire(timers, id)
        /\ loopInflight' = IF runNativeLoopStarts(cameraRef, modelRef)
                           THEN loopInflight + 1 ELSE loopInflight
        /\ loadReturned' = NONE
        /\ emitted' = {}
        /\ UNCHANGED <<configVars, soloVars, teardownOrder, mounted, permVars, cameraVars, clockVars, modelVars,
                       loadModelSees, running, liveRunning, rafs, rafId, timeoutId,
                       startsAwaitLoad, snapVars, resultVars>>

\* takePictureAsync of a loop iteration settles: decode, infer, publish, re-arm
nativeCaptureSettles(o) ==
    /\ loopInflight > 0
    /\ loopInflight' = loopInflight - 1
    /\ LET r == inferNative(modelRef, o) IN
         /\ liveTensors' = liveTensors \cup r.left
         /\ predictions' = IF r.publish THEN setState(predictions, r.ranking)
                           ELSE predictions
         /\ emitted' = loopLog(o, r)
         /\ IF rearms(running, r.threw \/ o.kind \in {"decodeThrows", "noDecoder"})
            THEN /\ timeoutId' = freshTimer
                 /\ timers' = timers \cup {freshTimer}
            ELSE UNCHANGED <<timeoutId, timers>>
    /\ loadReturned' = NONE
    /\ UNCHANGED <<configVars, soloVars, teardownOrder, mounted, permVars, cameraVars, clockVars, modelVars,
                   loadModelSees, running, liveRunning, rafs, rafId, startsAwaitLoad,
                   snapVars>>

\* ------------------------------------------------------------- lifecycle
\* Camera.requestCameraPermissionsAsync settles; a granted permission renders
\* the Camera, which fills cameraRef
permissionSettles ==
    /\ platform = "native" /\ hasPermission = "null" /\ mounted
    /\ \E granted \in BOOLEAN :
         /\ hasPermission' = IF granted THEN "true" ELSE "false"
         /\ cameraRef' = granted
    /\ loadReturned' = NONE
    /\ emitted' = {}
    /\ UNCHANGED <<configVars, soloVars, teardownOrder, mounted, cameraReady, cameraVars, clockVars, modelVars,
                   loadModelSees, loopVars, timerVars, startsAwaitLoad, snapVars,
                   resultVars>>

\* React re-renders: loadModel is re-created over the current modelLoading
render ==
    /\ mounted /\ loadModelSees # modelLoading
    /\ loadModelSees' = modelLoading
    /\ loadReturned' = NONE
    /\ emitted' = {}
    /\ UNCHANGED <<configVars, soloVars, teardownOrder, mounted, permVars, cameraVars, clockVars, modelVars,
                   loopVars, timerVars, startsAwaitLoad, snapVars, resultVars>>

\* the cleanup's steps in program order: stop the loops, release the stream if
\* one is stored, dispose the model if one is stored
teardownSteps_disposeFirst(hasStream, hasModel) ==
    (IF hasModel THEN <<"disposeModel">> ELSE <<>>)
    \o <<"stopLoop">>
    \o (IF hasStream THEN <<"releaseStream">> ELSE <<>>)
teardownSteps(hasStream, hasModel) ==
    <<"stopLoop">>
    \o (IF hasStream THEN <<"releaseStream">> ELSE <<>>)
    \o (IF hasModel THEN <<"disposeModel">> ELSE <<>>)

\* the effect cleanup on unmount: stop the loops, release the stream, dispose
\* the model; React has detached the refs of the unmounted elements
cleanup ==
    /\ mounted
    /\ mounted' = FALSE
    /\ running' = FALSE
    /\ liveRunning' = FALSE
    /\ stopWebLoop
    /\ stopNativeLoop
    /\ openStreams' = IF webStreamRef # NULL THEN openStreams \ {webStreamRef}
                      ELSE openStreams
    /\ webStreamRef' = NULL
    /\ disposed' = releaseModel(modelRef, disposed).disposed
    /\ modelRef' = releaseModel(modelRef, disposed).modelRef
    /\ cameraRef' = FALSE
    /\ videoRef' = FALSE
    /\ srcObject' = FALSE
    /\ loadReturned' = NONE
    /\ emitted' = {}
    /\ teardownOrder' = teardownSteps(webStreamRef # NULL, modelRef # NULL)
    /\ UNCHANGED <<configVars, soloVars, hasPermission, cameraReady, streamsMade, webNeedsStart,
                   videoReady, gumButton, gumStart, playButton, playStart, clockVars,
                   modelLoading, created, loaderCalls, loadModelSees, loopInflight,
                   startsAwaitLoad, snapVars, resultVars>>

\* ------------------------------------------- snapshot-only variant (part_001)
\* part_001 keeps the model in useState (modelRef stands for that state), has
\* no live loop, loads the model from its mount effect and classifies one
\* picture per button press.  gumStart counts the initWebStream call of the
\* mount effect, gumButton and playButton those of the Aktifkan Kamera button.
labels == <<"OR", "AND">>

classNameSolo(k) == IF k <= Len(labels) THEN labels[k] ELSE FallbackName[k]

\* results = Array.from(data).map(...); results.sort(...)
rankSolo(probs) ==
    sort([k \in 1..Len(probs) |-> [className |-> classNameSolo(k), probability |-> probs[k]]])

\* what the variables no part_001 handler writes
soloFixed == <<configVars, clockVars, loadModelSees, loopVars, timerVars, startsAwaitLoad,
               snapsAwaitLoad, modelLoading, disposed, cameraReady, playStart>>

\* takeAndClassify from the decoding on, for one outcome o of capture, decode
\* and predict: the tensors left live, what is published, what is logged
inferSolo(o) ==
    IF o.kind = "captureFail"
    THEN [left |-> {}, publish |-> FALSE, ranking |-> <<>>, log |-> {"takeAndClassify error"}]
    ELSE IF o.kind \in {"decodeThrows", "noDecoder"}
    THEN [left |-> {}, publish |-> TRUE,
          ranking |-> <<[className |-> "error", probability |-> 0]>>,
          log |-> IF o.kind = "decodeThrows" THEN {"decode failed"} ELSE {}]
    ELSE IF o.kind = "predictThrows"
    THEN [left |-> AllTensors, publish |-> FALSE, ranking |-> <<>>,
          log |-> {"takeAndClassify error"}]
    ELSE IF o.kind = "noData"
    THEN [left |-> {"divided"}, publish |-> TRUE,
          ranking |-> <<[className |-> "unknown", probability |-> 0]>>, log |-> {}]
    ELSE [left |-> {"divided"}, publish |-> TRUE, ranking |-> rankSolo(o.probs), log |-> {}]

\* the picture is in hand: decode, predict, publish, dispose, setLoading(false)
soloClassify(o) ==
    LET r == inferSolo(o) IN
    /\ liveTensors' = liveTensors \cup r.left
    /\ predictions' = IF r.publish THEN setState(predictions, r.ranking) ELSE predictions
    /\ emitted' = r.log
    /\ loading' = setState(loading, FALSE)

\* initWebStream sets hasPermission to true on success and in its catch alike
permissionAfterInit_denied(ok) == IF ok THEN "true" ELSE "false"
permissionAfterInit(ok) == "true"

\* initWebStream: getUserMedia settles
soloGumSettles(fromMount) ==
    /\ variant = "snapshot"
    /\ IF fromMount THEN gumStart > 0 ELSE gumButton > 0
    /\ gumStart' = IF fromMount THEN gumStart - 1 ELSE gumStart
    /\ gumButton' = IF fromMount THEN gumButton ELSE gumButton - 1
    /\ \E ok \in BOOLEAN :
         IF ok
         THEN /\ hasPermission' = setState(hasPermission, permissionAfterInit(TRUE))
              /\ streamsMade' = streamsMade + 1
              /\ openStreams' = openStreams \cup {streamsMade + 1}
              /\ webStreamRef' = streamsMade + 1
              /\ emitted' = {}
              /\ IF videoRef
                 THEN \* attach the stream, await loadedmetadata and play()
                      /\ srcObject' = TRUE
                      /\ playButton' = playButton + 1
                      /\ UNCHANGED <<webNeedsStart, mountPc>>
                 ELSE /\ webNeedsStart' = setState(webNeedsStart, FALSE)
                      /\ mountPc' = IF fromMount THEN "tfReady" ELSE mountPc
                      /\ UNCHANGED <<srcObject, playButton>>
         ELSE /\ hasPermission' = setState(hasPermission, permissionAfterInit(FALSE))
              /\ emitted' = {"Web camera init failed"}
              /\ webNeedsStart' = setState(webNeedsStart, TRUE)
              /\ mountPc' = IF fromMount THEN "tfReady" ELSE mountPc
              /\ UNCHANGED <<streamsMade, openStreams, webStreamRef, srcObject, playButton>>
    \* the next render puts the <video> on screen
    /\ videoRef' = IF mounted THEN uiRendered' ELSE videoRef
    /\ loadReturned' = NONE
    /\ UNCHANGED <<soloFixed, teardownOrder, mounted, cameraRef, videoReady, loading,
                   modelRef, created, loaderCalls, snapsAwaitCapture, resultVars>>

\* initWebStream: loadedmetadata has fired and play() has settled
soloPlaySettles ==
    /\ variant = "snapshot"
    /\ playButton > 0
    /\ playButton' = playButton - 1
    /\ videoReady' = TRUE
    /\ webNeedsStart' = setState(webNeedsStart, FALSE)
    /\ loadReturned' = NONE
    /\ emitted' = {}
    /\ UNCHANGED <<soloFixed, soloVars, teardownOrder, mounted, hasPermission, cameraRef,
                   videoRef, srcObject, webStreamRef, openStreams, streamsMade, gumButton,
                   gumStart, modelRef, created, loaderCalls, snapsAwaitCapture, resultVars>>

\* the Aktifkan Kamera button: initWebStream up to getUserMedia
soloInitWebStream ==
    /\ variant = "snapshot" /\ platform = "web"
    /\ mounted /\ uiRendered /\ webNeedsStart
    /\ Activations < MaxActive
    /\ streamsMade + gumButton + gumStart < MaxStreams
    /\ gumButton' = gumButton + 1
    /\ loadReturned' = NONE
    /\ emitted' = {}
    /\ UNCHANGED <<soloFixed, soloVars, teardownOrder, mounted, permVars, videoRef,
                   srcObject, webStreamRef, openStreams, streamsMade, webNeedsStart,
                   videoReady, gumStart, playButton, modelRef, created, loaderCalls,
                   snapsAwaitCapture, resultVars>>

\* mount effect, native: requestCameraPermissionsAsync settles
soloPermissionSettles ==
    /\ variant = "snapshot" /\ platform = "native"
    /\ mountPc = "stream"
    /\ mountPc' = "tfReady"
    /\ \E granted \in BOOLEAN :
         /\ hasPermission' = setState(hasPermission, IF granted THEN "true" ELSE "false")
         /\ cameraRef' = (granted /\ mounted)
    /\ loadReturned' = NONE
    /\ emitted' = {}
    /\ UNCHANGED <<soloFixed, teardownOrder, mounted, loading, videoRef, srcObject,
                   webStreamRef, openStreams, streamsMade, webNeedsStart, videoReady,
                   gumButton, gumStart, playButton, modelRef, created, loaderCalls,
                   snapsAwaitCapture, resultVars>>

\* mount effect: tf.ready() settles and the model load is issued
soloTfReady ==
    /\ variant = "snapshot"
    /\ mountPc = "tfReady"
    /\ mountPc' = "load"
    /\ loaderCalls' = loaderCalls + 1
    /\ loadReturned' = NONE
    /\ emitted' = {}
    /\ UNCHANGED <<soloFixed, teardownOrder, mounted, loading, permVars, videoRef,
                   srcObject, webStreamRef, openStreams, streamsMade, webNeedsStart,
                   videoReady, gumButton, gumStart, playButton, modelRef, created,
                   snapsAwaitCapture, resultVars>>

\* mount effect: the model load settles; setModel(loadedModel) or the catch
soloLoadSettles ==
    /\ variant = "snapshot"
    /\ mountPc = "load"
    /\ mountPc' = "done"
    /\ \E ok \in BOOLEAN :
         IF ok
         THEN /\ created' = created + 1
              /\ modelRef' = setState(modelRef, created + 1)
              /\ loadReturned' = created + 1
              /\ emitted' = {}
         ELSE /\ emitted' = {"Gagal memuat model."}
              /\ loadReturned' = NULL
              /\ UNCHANGED <<created, modelRef>>
    /\ UNCHANGED <<soloFixed, teardownOrder, mounted, loading, permVars, videoRef,
                   srcObject, webStreamRef, openStreams, streamsMade, webNeedsStart,
                   videoReady, gumButton, gumStart, playButton, loaderCalls,
                   snapsAwaitCapture, resultVars>>

\* takeAndClassify up to its first await, or to its end when it has none
takeAndClassify ==
    /\ variant = "snapshot"
    /\ mounted /\ uiRendered
    /\ modelRef # NULL /\ ~loading
    /\ Activations < MaxActive
    /\ IF platform = "web" /\ videoRef /\ videoReady
       THEN \* the frame is drawn from the <video>: no await on this path
            /\ \E o \in WebOutcomes \cup {p \in Outcomes : p.kind = "decodeThrows"} :
                 soloClassify(o)
            /\ UNCHANGED snapsAwaitCapture
       ELSE IF platform = "native" /\ ~cameraRef
       THEN \* setLoading(true); setLoading(false); return
            /\ emitted' = {}
            /\ UNCHANGED <<loading, snapsAwaitCapture, resultVars>>
       ELSE \* await the file picker (web) or takePictureAsync (native)
            /\ loading' = TRUE
            /\ snapsAwaitCapture' = snapsAwaitCapture + 1
            /\ emitted' = {}
            /\ UNCHANGED resultVars
    /\ loadReturned' = NONE
    /\ UNCHANGED <<soloFixed, teardownOrder, mounted, mountPc, permVars, videoRef,
                   srcObject, webStreamRef, openStreams, streamsMade, webNeedsStart,
                   videoReady, gumButton, gumStart, playButton, modelRef, created,
                   loaderCalls>>

\* takeAndClassify resumes with the picture (or the picker's or camera's failure)
soloCaptureSettles ==
    /\ variant = "snapshot"
    /\ snapsAwaitCapture > 0
    /\ snapsAwaitCapture' = snapsAwaitCapture - 1
    /\ \E o \in Outcomes : soloClassify(o)
    /\ loadReturned' = NONE
    /\ UNCHANGED <<soloFixed, teardownOrder, mounted, mountPc, permVars, videoRef,
                   srcObject, webStreamRef, openStreams, streamsMade, webNeedsStart,
                   videoReady, gumButton, gumStart, playButton, modelRef, created,
                   loaderCalls>>

\* the user closes the file picker without choosing a file: the input fires
\* neither onchange nor onerror, so the promise takeAndClassify awaits never
\* settles and nothing after the await runs
soloPickerDismissed ==
    /\ variant = "snapshot" /\ platform = "web"
    /\ snapsAwaitCapture > 0
    /\ snapsAwaitCapture' = snapsAwaitCapture - 1
    /\ emitted' = {}
    /\ loadReturned' = NONE
    /\ UNCHANGED <<soloFixed, teardownOrder, mounted, mountPc, permVars, videoRef,
                   srcObject, webStreamRef, openStreams, streamsMade, webNeedsStart,
                   videoReady, gumButton, gumStart, playButton, modelRef, created,
                   loaderCalls, loading, resultVars>>

\* the cleanup of part_001 releases the stream and nothing else
teardownStepsSolo(hasStream) == IF hasStream THEN <<"releaseStream">> ELSE <<>>

soloCleanup ==
    /\ variant = "snapshot"
    /\ mounted
    /\ mounted' = FALSE
    /\ teardownOrder' = teardownStepsSolo(webStreamRef # NULL)
    /\ openStreams' = IF webStreamRef # NULL THEN openStreams \ {webStreamRef}
                      ELSE openStreams
    /\ webStreamRef' = NULL
    /\ cameraRef' = FALSE
    /\ videoRef' = FALSE
    /\ srcObject' = FALSE
    /\ loadReturned' = NONE
    /\ emitted' = {}
    /\ UNCHANGED <<soloFixed, soloVars, hasPermission, streamsMade, webNeedsStart,
                   videoReady, gumButton, gumStart, playButton, modelRef, created,
                   loaderCalls, snapsAwaitCapture, resultVars>>

\* --------------------------------------------------------- specification
\* the vectors the model returns in the lifecycle specifications
LoopOutputs == {<<2, 1, 0>>, <<0, 1, 2>>}

InitCommon ==
    /\ variant \in {"auto", "manual"}
    /\ outs = LoopOutputs
    /\ PrepIdle
    /\ tickMs = CoarseTickMs
    /\ horizon = StartNow + CoarseFrames * CoarseTickMs
    /\ now = StartNow
    /\ lastRun = 0
    /\ workRuns = 0
    /\ mounted = TRUE
    /\ teardownOrder = <<>>
    /\ mountPc = "done"
    /\ loading = FALSE
    /\ cameraRef = FALSE
    /\ cameraReady = FALSE
    /\ srcObject = FALSE
    /\ webStreamRef = NULL
    /\ openStreams = {}
    /\ streamsMade = 0
    /\ videoReady = FALSE
    /\ gumButton = 0 /\ gumStart = 0 /\ playButton = 0 /\ playStart = 0
    /\ modelRef = NULL
    /\ modelLoading = FALSE
    /\ loadModelSees = FALSE
    /\ running = FALSE
    /\ liveRunning = FALSE
    /\ rafId = NULL
    /\ rafs = {}
    /\ timeoutId = NULL
    /\ timers = {}
    /\ loopInflight = 0
    /\ startsAwaitLoad = 0
    /\ snapsAwaitLoad = 0
    /\ snapsAwaitCapture = 0
    /\ predictions = <<>>
    /\ liveTensors = {}
    /\ created = 0
    /\ disposed = {}
    /\ loaderCalls = 0
    /\ loadReturned = NONE
    /\ emitted = {}

\* native: the permission request is pending and no Camera is rendered yet
InitNative ==
    /\ InitCommon
    /\ platform = "native"
    /\ hasPermission = "null"
    /\ webNeedsStart = FALSE
    /\ videoRef = FALSE

\* web: the mount effect has set hasPermission and webNeedsStart, and the
\* <video> element is rendered
InitWeb ==
    /\ InitCommon
    /\ platform = "web"
    /\ hasPermission = "true"
    /\ webNeedsStart = TRUE
    /\ videoRef = TRUE

SharedNext ==
    \/ startLive
    \/ stopLive
    \/ handleSnapshot
    \/ snapLoadSettles
    \/ startLoadSettles
    \/ render
    \/ cleanup

NativeNext ==
    \/ handleCameraReady
    \/ permissionSettles
    \/ timerFires
    \/ \E o \in Outcomes : nativeCaptureSettles(o)
    \/ snapCaptureSettles

WebNext ==
    \/ startWebCamera
    \/ \E fromStart \in BOOLEAN : gumSettles(fromStart)
    \/ \E fromStart \in BOOLEAN : playSettles(fromStart)
    \/ \E o \in WebOutcomes : animationFrame(o)

\* ranking: the web snapshot with the model loaded; the loaded model returns
\* one output vector, any of AllOutputs
AllOutputs == UNION {[1..n -> 0..MaxProb] : n \in 1..MaxOut}

InitRank ==
    /\ variant \in {"auto", "manual"}
    /\ \E o \in AllOutputs : outs = {o}
    /\ PrepIdle
    /\ tickMs = CoarseTickMs
    /\ horizon = StartNow + CoarseFrames * CoarseTickMs
    /\ now = StartNow
    /\ lastRun = 0
    /\ workRuns = 0
    /\ platform = "web"
    /\ hasPermission = "true"
    /\ webNeedsStart = TRUE
    /\ videoRef = TRUE
    /\ mounted = TRUE
    /\ teardownOrder = <<>>
    /\ mountPc = "done"
    /\ loading = FALSE
    /\ cameraRef = FALSE
    /\ cameraReady = FALSE
    /\ srcObject = FALSE
    /\ webStreamRef = NULL
    /\ openStreams = {}
    /\ streamsMade = 0
    /\ videoReady = FALSE
    /\ gumButton = 0 /\ gumStart = 0 /\ playButton = 0 /\ playStart = 0
    /\ modelRef = 1
    /\ modelLoading = FALSE
    /\ loadModelSees = FALSE
    /\ running = FALSE
    /\ liveRunning = FALSE
    /\ rafId = NULL
    /\ rafs = {}
    /\ timeoutId = NULL
    /\ timers = {}
    /\ loopInflight = 0
    /\ startsAwaitLoad = 0
    /\ snapsAwaitLoad = 0
    /\ snapsAwaitCapture = 0
    /\ predictions = <<>>
    /\ liveTensors = {}
    /\ created = 1
    /\ disposed = {}
    /\ loaderCalls = 1
    /\ loadReturned = NONE
    /\ emitted = {}

Init == InitNative \/ InitWeb
Next == SharedNext \/ NativeNext \/ WebNext
Spec == Init /\ [][Next]_vars

SpecNative == InitNative /\ [][SharedNext \/ NativeNext]_vars
SpecWeb == InitWeb /\ [][SharedNext \/ WebNext]_vars
SpecRank == InitRank /\ [][handleSnapshot]_vars
\* the manual start/stop variant alone (part_000)
InitManual == Init /\ variant = "manual"
SpecManual == InitManual /\ [][Next]_vars

\* part_001 right after its first render: hasPermission is null, so neither the
\* <video> nor the camera view is on screen; the mount effect has called
\* initWebStream (web) or requested the camera permission (native)
SoloOutputs == {<<1, 2>>, <<0, 1, 2>>}

InitSolo ==
    /\ variant = "snapshot"
    /\ outs = SoloOutputs
    /\ PrepIdle
    /\ tickMs = CoarseTickMs
    /\ horizon = StartNow + CoarseFrames * CoarseTickMs
    /\ now = StartNow
    /\ lastRun = 0
    /\ workRuns = 0
    /\ platform \in {"web", "native"}
    /\ hasPermission = "null"
    /\ webNeedsStart = FALSE
    /\ videoRef = FALSE
    /\ mounted = TRUE
    /\ teardownOrder = <<>>
    /\ mountPc = "stream"
    /\ loading = FALSE
    /\ cameraRef = FALSE
    /\ cameraReady = FALSE
    /\ srcObject = FALSE
    /\ webStreamRef = NULL
    /\ openStreams = {}
    /\ streamsMade = 0
    /\ videoReady = FALSE
    /\ gumButton = 0 /\ gumStart = (IF platform = "web" THEN 1 ELSE 0) /\ playButton = 0 /\ playStart = 0
    /\ modelRef = NULL
    /\ modelLoading = FALSE
    /\ loadModelSees = FALSE
    /\ running = FALSE
    /\ liveRunning = FALSE
    /\ rafId = NULL
    /\ rafs = {}
    /\ timeoutId = NULL
    /\ timers = {}
    /\ loopInflight = 0
    /\ startsAwaitLoad = 0
    /\ snapsAwaitLoad = 0
    /\ snapsAwaitCapture = 0
    /\ predictions = <<>>
    /\ liveTensors = {}
    /\ created = 0
    /\ disposed = {}
    /\ loaderCalls = 0
    /\ loadReturned = NONE
    /\ emitted = {}

SoloNext ==
    \/ \E fromMount \in BOOLEAN : soloGumSettles(fromMount)
    \/ soloPlaySettles
    \/ soloInitWebStream
    \/ soloPermissionSettles
    \/ soloTfReady
    \/ soloLoadSettles
    \/ takeAndClassify
    \/ soloCaptureSettles
    \/ soloCleanup

SpecSolo == InitSolo /\ [][SoloNext]_vars

\* the snapshot-only variant with the dismissed file picker, under the
\* scheduling the runtime gives: every pending promise that can settle does
SoloLiveNext == SoloNext \/ soloPickerDismissed
SoloFairness ==
    /\ WF_vars(soloCaptureSettles)
    /\ WF_vars(soloLoadSettles)
    /\ WF_vars(soloTfReady)
    /\ WF_vars(soloPermissionSettles)
    /\ WF_vars(soloPlaySettles)
    /\ WF_vars(\E fromMount \in BOOLEAN : soloGumSettles(fromMount))
SpecSoloLive == InitSolo /\ [][SoloLiveNext]_vars /\ SoloFairness

\* the auto-start variant alone, under the scheduling the runtime gives: every
\* pending promise settles, due timers and frames fire, React re-renders;
\* the user's commands (camera button, snapshot) and the unmount are not forced
InitAuto == Init /\ variant = "auto"
AutoNext ==
    \/ startWebCamera
    \/ gumSettles(FALSE)
    \/ playSettles(FALSE)
    \/ \E o \in WebOutcomes : animationFrame(o)
    \/ handleCameraReady
    \/ permissionSettles
    \/ timerFires
    \/ \E o \in Outcomes : nativeCaptureSettles(o)
    \/ handleSnapshot
    \/ snapLoadSettles
    \/ snapCaptureSettles
    \/ startLoadSettles
    \/ render
    \/ cleanup
AutoFairness ==
    /\ WF_vars(gumSettles(FALSE))
    /\ WF_vars(playSettles(FALSE))
    /\ WF_vars(handleCameraReady)
    /\ WF_vars(permissionSettles)
    /\ WF_vars(snapLoadSettles)
    /\ WF_vars(snapCaptureSettles)
    /\ WF_vars(startLoadSettles)
    /\ WF_vars(render)
SpecAutoLive == InitAuto /\ [][AutoNext]_vars /\ AutoFairness

\* the preprocessing of one decoded frame, tensor by tensor, as the three
\* inference paths run it: imageTensor -> resized -> divided -> normalized
sessionVars == <<platform, variant, outs, tickMs, horizon, soloVars, teardownOrder,
                 mounted, permVars, cameraVars, clockVars, modelVars, loadModelSees,
                 loopVars, timerVars, startsAwaitLoad, snapVars, resultVars,
                 loadReturned, emitted>>

\* const resized = tf.image.resizeBilinear(imageTensor, [IMAGE_SIZE, IMAGE_SIZE]);
prepResize ==
    /\ prepStage = "decoded"
    /\ prepStage' = "resized"
    /\ tensor' = resizeBilinear(tensor, IMAGE_SIZE)
    /\ UNCHANGED sessionVars

\* resized.div(255.0)
prepDiv ==
    /\ prepStage = "resized"
    /\ prepStage' = "divided"
    /\ tensor' = div(tensor, 255)
    /\ UNCHANGED sessionVars

\* .expandDims(0): the tensor given to predict
prepExpandDims ==
    /\ prepStage = "divided"
    /\ prepStage' = "normalized"
    /\ tensor' = expandDims(tensor)
    /\ UNCHANGED sessionVars

\* the web screen with the model loaded and a frame decoded
InitPrep ==
    /\ variant = "auto"
    /\ outs = LoopOutputs
    /\ prepStage = "decoded"
    /\ tensor \in Frames
    /\ tickMs = CoarseTickMs
    /\ horizon = StartNow + CoarseFrames * CoarseTickMs
    /\ now = StartNow
    /\ lastRun = 0
    /\ workRuns = 0
    /\ platform = "web"
    /\ hasPermission = "true"
    /\ webNeedsStart = TRUE
    /\ videoRef = TRUE
    /\ mounted = TRUE
    /\ teardownOrder = <<>>
    /\ mountPc = "done"
    /\ loading = FALSE
    /\ cameraRef = FALSE
    /\ cameraReady = FALSE
    /\ srcObject = FALSE
    /\ webStreamRef = NULL
    /\ openStreams = {}
    /\ streamsMade = 0
    /\ videoReady = FALSE
    /\ gumButton = 0 /\ gumStart = 0 /\ playButton = 0 /\ playStart = 0
    /\ modelRef = 1
    /\ modelLoading = FALSE
    /\ loadModelSees = FALSE
    /\ running = FALSE
    /\ liveRunning = FALSE
    /\ rafId = NULL
    /\ rafs = {}
    /\ timeoutId = NULL
    /\ timers = {}
    /\ loopInflight = 0
    /\ startsAwaitLoad = 0
    /\ snapsAwaitLoad = 0
    /\ snapsAwaitCapture = 0
    /\ predictions = <<>>
    /\ liveTensors = {}
    /\ created = 1
    /\ disposed = {}
    /\ loaderCalls = 1
    /\ loadReturned = NONE
    /\ emitted = {}

PrepNext == prepResize \/ prepDiv \/ prepExpandDims
SpecPrep == InitPrep /\ [][PrepNext]_vars

\* the three variants of the component side by side
AllInit == Init \/ InitSolo
AllNext == (variant # "snapshot" /\ Next) \/ (variant = "snapshot" /\ SoloNext)
SpecAll == AllInit /\ [][AllNext]_vars

\* throttle: a running web session with the model loaded and one frame
\* requested, on a display that delivers a frame every 16 ms, for 62 frames
InitThrottle ==
    /\ variant \in {"auto", "manual"}
    /\ outs = LoopOutputs
    /\ PrepIdle
    /\ tickMs = 16
    /\ horizon = StartNow + 62 * 16
    /\ now = StartNow
    /\ lastRun = 0
    /\ workRuns = 0
    /\ platform = "web"
    /\ hasPermission = "true"
    /\ webNeedsStart = FALSE
    /\ videoRef = TRUE
    /\ mounted = TRUE
    /\ teardownOrder = <<>>
    /\ mountPc = "done"
    /\ loading = FALSE
    /\ cameraRef = FALSE
    /\ cameraReady = FALSE
    /\ srcObject = TRUE
    /\ webStreamRef = 1
    /\ openStreams = {1}
    /\ streamsMade = 1
    /\ videoReady = TRUE
    /\ gumButton = 0 /\ gumStart = 0 /\ playButton = 0 /\ playStart = 0
    /\ modelRef = 1
    /\ modelLoading = FALSE
    /\ loadModelSees = FALSE
    /\ running = TRUE
    /\ liveRunning = TRUE
    /\ rafId = 1
    /\ rafs = {1}
    /\ timeoutId = NULL
    /\ timers = {}
    /\ loopInflight = 0
    /\ startsAwaitLoad = 0
    /\ snapsAwaitLoad = 0
    /\ snapsAwaitCapture = 0
    /\ predictions = <<>>
    /\ liveTensors = {}
    /\ created = 1
    /\ disposed = {}
    /\ loaderCalls = 1
    /\ loadReturned = NONE
    /\ emitted = {}

ThrottleNext == \E o \in WebOutcomes : animationFrame(o)
SpecThrottle == InitThrottle /\ [][ThrottleNext]_vars

\* one live session: the state a start leaves once the model is in hand (the
\* flag set, the first frame requested or the first capture issued), and from
\* there the loop's own callbacks, snapshots and the teardown, with no further
\* start and no stop.  The loaded model returns two, three or four values.
SessionOutputs == {<<2, 1, 0>>, <<1, 2>>, <<0, 1, 2, 1>>}

InitLoop ==
    /\ variant \in {"auto", "manual"}
    /\ outs = SessionOutputs
    /\ PrepIdle
    /\ tickMs = CoarseTickMs
    /\ horizon = StartNow + CoarseFrames * CoarseTickMs
    /\ now = StartNow
    /\ lastRun = 0
    /\ workRuns = 0
    /\ platform \in {"web", "native"}
    /\ hasPermission = "true"
    /\ webNeedsStart = FALSE
    /\ videoRef = (platform = "web")
    /\ mounted = TRUE
    /\ teardownOrder = <<>>
    /\ mountPc = "done"
    /\ loading = FALSE
    /\ cameraRef = (platform = "native")
    /\ cameraReady = (platform = "native")
    /\ srcObject = (platform = "web")
    /\ webStreamRef = (IF platform = "web" THEN 1 ELSE NULL)
    /\ openStreams = (IF platform = "web" THEN {1} ELSE {})
    /\ streamsMade = (IF platform = "web" THEN 1 ELSE 0)
    /\ videoReady = (platform = "web")
    /\ gumButton = 0 /\ gumStart = 0 /\ playButton = 0 /\ playStart = 0
    /\ modelRef = 1
    /\ modelLoading = FALSE
    /\ loadModelSees = FALSE
    /\ running = TRUE
    /\ liveRunning = TRUE
    /\ rafId = (IF platform = "web" THEN 1 ELSE NULL)
    /\ rafs = (IF platform = "web" THEN {1} ELSE {})
    /\ timeoutId = NULL
    /\ timers = {}
    /\ loopInflight = (IF platform = "native" THEN 1 ELSE 0)
    /\ startsAwaitLoad = 0
    /\ snapsAwaitLoad = 0
    /\ snapsAwaitCapture = 0
    /\ predictions = <<>>
    /\ liveTensors = {}
    /\ created = 1
    /\ disposed = {}
    /\ loaderCalls = 1
    /\ loadReturned = NONE
    /\ emitted = {}


LoopNext ==
    \/ timerFires
    \/ \E o \in Outcomes : nativeCaptureSettles(o)
    \/ \E o \in WebOutcomes : animationFrame(o)
    \/ handleSnapshot
    \/ snapCaptureSettles
    \/ cleanup

SpecLoop == InitLoop /\ [][LoopNext]_vars

\* ================================================================ claims
\* loop chains alive: pending timers, pending animation-frame requests, and
\* in-flight iterations that will re-arm when they complete
Chains == Cardinality(timers) + Cardinality(rafs)
          + (IF running THEN loopInflight ELSE 0)

\* start() activations suspended at an await of their own
StartsPending == startsAwaitLoad + gumStart + playStart

\* C1: model-load requests issued before any of them resolves share one
\* underlying load: never are two loads in flight, and no loadModel call
\* returns null while a load is in flight (a null return is allowed only to
\* the call whose own load has just failed).
C1_ConcurrentLoadsCollapse ==
    /\ LoadsInFlight <= 1
    /\ ~(loadReturned = NULL /\ LoadsInFlight > 0 /\ "loadModel error" \notin emitted)

\* C2: a second start() issued while the first is still awaiting is a no-op:
\* it never becomes a second pending start with its own model load or its own
\* stream acquisition (and so its own loop).
C2_SecondStartIsNoOp == StartsPending <= 1

\* C3: a loop iteration that was in flight when the session stopped does not
\* publish when it completes: a step in which an iteration settles while the
\* running flag is false leaves the published ranking as it was.
C3_StoppedIterationDiscards ==
    [][(loopInflight' < loopInflight /\ ~running) => predictions' = predictions]_vars

\* C4: the model is not disposed while a loop iteration is still in flight.
C4_NoDisposeWhileIterating ==
    [][disposed' # disposed => loopInflight = 0]_vars

\* C5: between inference calls no intermediate tensor is live: every tensor a
\* call allocated has been disposed when the call ends, however it ends.
C5_NoTensorOutlivesCall == liveTensors = {}

\* C6: at most one camera capture (takePictureAsync) is in flight at any time.
C6_OneCaptureInFlight == CapturesInFlight <= 1

\* C7: at most one loop chain exists at any time.  Stated for the runs in
\* which the loader was invoked at most once, so that no two starts ever
\* overlapped on a model load: what is left is start and stop interleaved
\* with the loop's own callbacks.
C7_OneLoopChain == loaderCalls <= 1 => Chains <= 1

\* C8: every published ranking is sorted non-increasing by probability, and
\* entries of equal probability keep their output-index order.
C8_RankingSortedStable ==
    \A i \in 1..Len(predictions) : \A j \in 1..Len(predictions) :
        i < j =>
          /\ predictions[i].probability >= predictions[j].probability
          /\ predictions[i].probability = predictions[j].probability
               => indexOfName(predictions[i].className, 1)
                    < indexOfName(predictions[j].className, 1)

\* a ranking of at least three entries that holds a tie and whose first entry
\* is not the model's first output: the sort has moved entries
C8_Witness ==
    /\ Len(predictions) >= 3
    /\ predictions[1].className # "OR"
    /\ \E i \in 1..(Len(predictions) - 1) :
         predictions[i].probability = predictions[i + 1].probability

\* C9: a failure inside one loop iteration (capture, decode or predict) does
\* not stop the loop: in the step where a running session's iteration fails,
\* the failure is logged, the running flag stays set and the next iteration is
\* scheduled (a pending timer on native, a pending animation frame on web).
ThrowKinds == {"captureFail", "decodeThrows", "noDecoder", "predictThrows"}

C9_FailureKeepsLoop ==
    [][\A o \in Outcomes :
         o.kind \in ThrowKinds =>
           /\ (running /\ nativeCaptureSettles(o))
                => (running' /\ timeoutId' \in timers' /\ emitted' # {})
           /\ (running /\ o \in WebOutcomes /\ stepDue(now + tickMs)
                 /\ stepSourceReady /\ animationFrame(o))
                => (running' /\ rafId' \in rafs' /\ emitted' # {})]_vars

\* a running native session whose last iteration failed and was re-armed
C9_Witness ==
    /\ running
    /\ "runNativeLoop error" \in emitted
    /\ timeoutId \in timers

\* C10: a running session always has a pending scheduling handle or an
\* in-flight iteration.
C10_RunningHasHandle ==
    running => (Cardinality(timers) + Cardinality(rafs) + loopInflight > 0)

\* C11: in the web loop two consecutive steps that go past the throttle are at
\* least frameIntervalMs apart, every delivered frame leaves a frame request
\* pending, and with the 200 ms interval on a 16 ms display at most 5 of 62
\* frames go past the throttle.
C11_ThrottleSpacing ==
    /\ [](frameIntervalMs = 200 => workRuns <= 5)
    /\ [][workRuns' # workRuns => lastRun' - lastRun >= frameIntervalMs]_vars
    /\ [][now' # now => (rafId' \in rafs' /\ workRuns' - workRuns \in {0, 1})]_vars

\* the 62nd frame has been delivered and the throttle let exactly 5 through
C11_Witness ==
    /\ tickMs = 16
    /\ now = horizon
    /\ frameIntervalMs = 200
    /\ workRuns = 5

\* C12: a second stop() right after a stop(), and a second model release
\* right after a release, change nothing observable: a stopLive step taken in
\* the state a stopLive leaves (flag clear, both handles null) keeps the flag,
\* the handles, the pending timers and frame requests, the stored model and
\* the published ranking; and releasing twice equals releasing once.
StoppedState == ~running /\ ~liveRunning /\ rafId = NULL /\ timeoutId = NULL

C12_StopReleaseIdempotent ==
    /\ [][(stopLive /\ StoppedState)
            => UNCHANGED <<running, liveRunning, rafId, rafs, timeoutId, timers,
                           modelRef, disposed, predictions>>]_vars
    /\ [](LET once == releaseModel(modelRef, disposed)
          IN releaseModel(once.modelRef, once.disposed) = once)

\* a stopped manual session with an iteration of the stopped loop still in
\* flight and a model stored: stopLive has acted, and a second stop and a
\* release are both possible
C12_Witness ==
    /\ mounted /\ variant = "manual"
    /\ StoppedState
    /\ loopInflight > 0
    /\ modelRef # NULL

\* C13: a failed model load leaves the start that asked for it with the
\* session as it was (not running, no loop scheduled, no model stored by it:
\* none at all when no load ever succeeded), and the failure does not stick:
\* once the loads have settled the loading flag of a mounted component is
\* clear, so the next start or snapshot invokes the loader again.
LoadFailed == "loadModel error" \in emitted

C13_LoadFailureNotSticky ==
    /\ [][LoadFailed'
            => /\ UNCHANGED <<running, modelRef, rafs, timers, loopInflight>>
               /\ (created = 0 => (~running' /\ modelRef' = NULL))]_vars
    /\ []((mounted /\ LoadsInFlight = 0) => ~modelLoading)

\* the loader was invoked twice, one attempt failed, and the session runs on
\* the model of the other
C13_Witness ==
    /\ loaderCalls = 2 /\ created = 1 /\ LoadsInFlight = 0
    /\ modelRef = 1
    /\ running /\ mounted

\* C14: a start attempted while the frame source is unavailable ends idle and
\* reports an error: when the stream acquisition of a mounted component
\* settles and there is no video element to attach the stream to, the session
\* is not running afterwards, no frame is requested, no start goes on to load
\* the model, and a message is emitted.
C14_NoSourceNoStart ==
    [][((\E fromStart \in BOOLEAN : gumSettles(fromStart)) /\ mounted /\ ~videoRef)
         => /\ ~running'
            /\ rafs' = rafs
            /\ startsAwaitLoad' = startsAwaitLoad
            /\ emitted' # {}]_vars

\* C15: after a session-level failure of start (the camera permission or the
\* stream refused, or the model load failed) a mounted component still shows
\* a control that invokes start again.
StartFailed == hasPermission = "false" \/ "Gagal memuat model." \in emitted

C15_RetryOffered == (mounted /\ StartFailed) => startOffered

\* C16: the teardown stops the loop first, then releases the camera stream,
\* then disposes the model: the steps the cleanup performed appear in that
\* order, a disposal is always preceded by the stop, and in the step that
\* disposes a model the running flag is clear and both handles are null.
StepRank(step) ==
    IF step = "stopLoop" THEN 1 ELSE IF step = "releaseStream" THEN 2 ELSE 3

C17_StreamsReleased ==
    openStreams \subseteq (IF mounted /\ webStreamRef # NULL THEN {webStreamRef} ELSE {})

\* C18: at every moment at most one loaded, undisposed model handle exists.
LiveModels == (1..created) \ disposed

C18_OneLiveModel == Cardinality(LiveModels) <= 1

\* C19: once the teardown has run and every pending asynchronous operation
\* has settled, every model handle that was loaded has been disposed and none
\* is stored.
Settled ==
    /\ LoadsInFlight = 0 /\ CapturesInFlight = 0 /\ CameraCalls = 0
    /\ timers = {} /\ rafs = {}
    /\ mountPc = "done"

C19_ModelsDisposedAfterTeardown ==
    (~mounted /\ Settled) => (LiveModels = {} /\ modelRef = NULL)

\* C20: a model output with more values than labels is published whole: the
\* value at (0-based) index i carries the label LABELS[i] when there is one
\* and "class_<i>" otherwise, so the fourth of four values is labelled class_3.
C20_Expected == <<"OR", "AND", "NOT", "class_3", "class_4", "class_5">>

C20_FallbackLabels ==
    predictions # <<>> =>
      \A o \in outs :
        /\ Len(predictions) = Len(o)
        /\ \A k \in 1..Len(o) :
             \E i \in 1..Len(predictions) :
               predictions[i] = [className |-> C20_Expected[k], probability |-> o[k]]

\* four outputs over three labels were published, the fourth as class_3 with
\* its own value
C20_Witness ==
    /\ Len(predictions) = 4
    /\ \A o \in outs : Len(o) = 4 /\ o[4] = 2 /\ o[1] = 0
    /\ \E i \in 1..4 : predictions[i] = [className |-> "class_3", probability |-> 2]

\* C21: when the model returns a number of values other than the number of
\* labels, a diagnostic is emitted once and the result is still published: the
\* step that publishes the session's first ranking, when that ranking does not
\* have one entry per label, emits a message; a step that replaces an already
\* mismatched ranking by another emits none; and either step keeps the running
\* flag as it was.
Mismatched(ranking) == ranking # <<>> /\ Len(ranking) # Len(LABELS)

C21_MismatchDiagnosedOnce ==
    [][(predictions' # predictions /\ Mismatched(predictions'))
         => /\ running' = running
            /\ predictions = <<>> => emitted' # {}
            /\ Mismatched(predictions) => emitted' = {}]_vars

\* C22: a published ranking holds exactly one entry per model output index,
\* the value at index i paired with the label of index i: it has as many
\* entries as the output has values and every (label, value) pair occurs in it
\* exactly as often as in the output, so it is a permutation of those pairs.
\* With labels OR, AND, NOT the output (7, 2, 1), in tenths, is ranked
\* (OR, 7), (AND, 2), (NOT, 1).
C22_Pairs(o) == [k \in 1..Len(o) |-> [className |-> C20_Expected[k], probability |-> o[k]]]

C22_Occurrences(s, e) == Cardinality({i \in 1..Len(s) : s[i] = e})

C22_RankingIsPermutation ==
    /\ predictions # <<>> =>
         \A o \in outs :
           /\ Len(predictions) = Len(o)
           /\ \A k \in 1..Len(o) :
                C22_Occurrences(predictions, C22_Pairs(o)[k])
                  = C22_Occurrences(C22_Pairs(o), C22_Pairs(o)[k])
           /\ \A i \in 1..Len(predictions) :
                C22_Occurrences(C22_Pairs(o), predictions[i]) = 1
    /\ rank(<<7, 2, 1>>) = <<[className |-> "OR", probability |-> 7],
                             [className |-> "AND", probability |-> 2],
                             [className |-> "NOT", probability |-> 1]>>

\* three values were published in an order other than the output's: the last
\* output index leads and the first comes last
C22_Witness ==
    /\ Len(predictions) = 3
    /\ predictions[1] = [className |-> "NOT", probability |-> 2]
    /\ predictions[3] = [className |-> "OR", probability |-> 0]
    /\ outs = {<<0, 1, 2>>}

\* C23: a model output that is neither a tensor nor a list headed by a tensor
\* makes the inference call fail with a report and publishes nothing: in a
\* step where a loop iteration (native or web) or a classification of the
\* snapshot-only variant gets such an output from a stored model, a message is
\* emitted and the published ranking stays as it was.
NoData == [kind |-> "noData", probs |-> <<>>]

C23_BadShapeReported ==
    [][(/\ modelRef # NULL
        /\ \/ nativeCaptureSettles(NoData)
           \/ stepDue(now + tickMs) /\ stepSourceReady /\ animationFrame(NoData)
           \/ soloCaptureSettles /\ soloClassify(NoData)
           \/ takeAndClassify /\ soloClassify(NoData))
         => (emitted' # {} /\ predictions' = predictions)]_vars

\* C24: the snapshot is independent of the live session: every step of a
\* snapshot (the command, its model load settling, its capture settling)
\* leaves the running flag, the frame-request and timer handles, the pending
\* requests and timers, the throttle's last-run time and the loop's in-flight
\* iterations as they were, running or not; it invokes the loader only when no
\* model is stored; and the step in which it publishes is its last (no
\* continuation of it is left pending), so that it publishes at most once.
SnapshotStep == handleSnapshot \/ snapLoadSettles \/ snapCaptureSettles

SnapsPending == snapsAwaitLoad + snapsAwaitCapture

C24_SnapshotIndependent ==
    [][SnapshotStep
         => /\ UNCHANGED <<running, liveRunning, rafId, rafs, timeoutId, timers,
                           lastRun, loopInflight>>
            /\ loaderCalls' # loaderCalls => modelRef = NULL
            /\ predictions' # predictions
                 => SnapsPending' = SnapsPending - (IF handleSnapshot THEN 0 ELSE 1)]_vars

\* a running native session with its next iteration scheduled, and a
\* snapshot's capture in flight beside it
C24_Witness ==
    /\ mounted /\ running
    /\ timeoutId \in timers
    /\ snapsAwaitCapture = 1
    /\ loopInflight = 0

\* C25: on the web, in the snapshot-only variant, a failed camera
\* initialisation still renders the main UI with the Aktifkan Kamera button
\* on it; pressing the button requests the stream again; and when an
\* acquisition completes (the stream obtained and, with a <video> on screen,
\* attached and played) the button is hidden.  The button is never pending
\* behind an unrendered UI.
InitFailed == "Web camera init failed" \in emitted

StreamAcquired ==
    \/ soloPlaySettles
    \/ (\E fromMount \in BOOLEAN : soloGumSettles(fromMount))
         /\ streamsMade' > streamsMade /\ playButton' = playButton

IterationBegins == loopInflight' > loopInflight \/ workRuns' > workRuns

C26_NoIterationAfterStop ==
    /\ [][stopLive => /\ rafId' = NULL /\ timeoutId' = NULL
                      /\ rafId # NULL => rafId \notin rafs'
                      /\ timeoutId # NULL => timeoutId \notin timers']_vars
    /\ [][(~running /\ loopInflight' < loopInflight) => timers' = timers]_vars
    /\ [][(~running /\ ~running' /\ StartsPending = 0) => ~IterationBegins]_vars

\* C27: within one live session iterations never overlap.  Discrete mode: at
\* most one iteration is between its capture and its publication, a capture
\* is issued only when none is in flight, and a timer is pending only when no
\* iteration is in flight (the re-arm comes after completion).  Stream mode:
\* one frame request is pending at a time, each delivered frame runs one step,
\* and that step's work, publication included, is done within the frame.
C27_IterationsDoNotOverlap ==
    /\ [](loopInflight <= 1)
    /\ [](timers # {} => loopInflight = 0)
    /\ [](Cardinality(timers) <= 1 /\ Cardinality(rafs) <= 1)
    /\ [][loopInflight' > loopInflight => loopInflight = 0]_vars
    /\ [][now' # now => (Cardinality(rafs) = 1 /\ workRuns' - workRuns \in {0, 1})]_vars

\* discrete mode: the first iteration completed and re-armed, the timer fired,
\* and the second iteration is in flight alone
C27_Witness ==
    /\ platform = "native" /\ running
    /\ timeoutId # NULL /\ timers = {}
    /\ loopInflight = 1

\* C28: predict is never invoked through a released handle.  The handle a
\* loop iteration or a snapshot predicts through is the one modelRef holds
\* when its capture settles; a stored handle is never a disposed one, and in
\* a step where a capture settles and an inference is attempted with a handle
\* stored, that handle has not been disposed.
PredictKinds == {"predictThrows", "noData", "data"}

PredictAttempted ==
    \/ \E o \in Outcomes : o.kind \in PredictKinds /\ nativeCaptureSettles(o)
    \/ snapCaptureSettles /\ liveTensors' # liveTensors
    \/ now' # now /\ workRuns' # workRuns /\ stepSourceReady

C28_NoPredictThroughReleased ==
    /\ [](modelRef # NULL => modelRef \notin disposed)
    /\ [][(PredictAttempted /\ modelRef # NULL) => modelRef \notin disposed]_vars

\* after the teardown disposed the model and cleared the reference, an
\* iteration that was in flight resumed, found no model to call and threw
C28_Witness ==
    /\ ~mounted
    /\ disposed # {} /\ modelRef = NULL
    /\ "runNativeLoop error" \in emitted
    /\ liveTensors = AllTensors
    /\ loopInflight = 0

\* C29: once a model handle is stored it stays the stored handle, and the
\* loader is not invoked again, until the teardown clears it: a step that
\* begins with a handle stored and is not the teardown leaves modelRef and the
\* count of loader invocations as they were, so every later start, snapshot
\* or loadModel call gets that handle.
C29_StoredHandleIsKept ==
    [][(modelRef # NULL /\ mounted')
         => (modelRef' = modelRef /\ loaderCalls' = loaderCalls)]_vars

\* C30: a start invoked while the running flag is set changes nothing.  In a
\* step in which start is invoked with the flag set (the Mulai Live command
\* of part_000; in App.js the camera-ready handler and the continuations of
\* startWebCamera, which end in startLiveInternal) no load is started, the
\* stored model, the frame requests, the timers, the in-flight iterations,
\* the flag and the published ranking stay as they were, and the command
\* itself acquires no stream.
StartInvokedAuto ==
    /\ variant = "auto"
    /\ \/ handleCameraReady
       \/ \E fromStart \in BOOLEAN : gumSettles(fromStart)
       \/ \E fromStart \in BOOLEAN : playSettles(fromStart)

C30_StartWhileRunningIsNoOp ==
    /\ [][(running /\ (startLive \/ StartInvokedAuto))
            => UNCHANGED <<running, liveRunning, modelRef, created, disposed, loaderCalls,
                           modelLoading, startsAwaitLoad, rafs, rafId, timers, timeoutId,
                           loopInflight, predictions>>]_vars
    /\ [][(running /\ startLive) => UNCHANGED <<gumStart, gumButton, streamsMade,
                                                 webStreamRef, openStreams>>]_vars

\* App.js on the web: Mulai Kamera was pressed twice, both streams came and
\* both videos played; one load served the start, and the start that came
\* second found the session running and left its single frame request alone
C30_Witness ==
    /\ mounted /\ variant = "auto" /\ platform = "web"
    /\ running /\ Cardinality(rafs) = 1
    /\ streamsMade = 2 /\ CameraCalls = 0 /\ videoReady /\ ~webNeedsStart
    /\ loaderCalls = 1 /\ created = 1 /\ LoadsInFlight = 0
    /\ emitted = {}
    /\ now = StartNow

\* C31: at every moment at most one camera stream is open: no stream is
\* obtained while an earlier one still has its tracks running.
C31_OneOpenStream == Cardinality(openStreams) <= 1

\* C32: an iteration or snapshot that fails at any stage leaves the published
\* result as it was, and what is published is always the ranking of a
\* successful inference: no published entry is a placeholder, and a step in
\* which a loop iteration or a classification ends in a failure outcome
\* (capture, decode, predict, output without data) does not change the
\* published ranking.
Placeholders == {"error", "unknown"}

ClassifiedWith(o) ==
    \/ nativeCaptureSettles(o)
    \/ o \in WebOutcomes /\ animationFrame(o)
    \/ soloCaptureSettles /\ soloClassify(o)
    \/ takeAndClassify /\ soloClassify(o)

C32_FailurePublishesNothing ==
    /\ [](\A i \in 1..Len(predictions) : predictions[i].className \notin Placeholders)
    /\ [][\A o \in Outcomes :
            (o.kind \in FailKinds /\ ClassifiedWith(o)) => predictions' = predictions]_vars

\* C33: the model state shown follows the load lifecycle.  In a mounted
\* component it is "loading" exactly while a load is in flight, "ready"
\* exactly while a handle is stored and no load is in flight, and right after
\* a load has failed with no handle stored and no other load in flight it is
\* "error", not "unloaded".
C33_ModelStateFollowsLifecycle ==
    mounted =>
      /\ (modelState = "loading") <=> (LoadsInFlight > 0)
      /\ (modelState = "ready") <=> (modelRef # NULL /\ LoadsInFlight = 0)
      /\ (LoadFailed /\ modelRef = NULL /\ LoadsInFlight = 0) => modelState = "error"

\* C34: whenever the running flag is set a model handle is stored: the flag
\* goes up only in a step that ends with a handle in modelRef, and the stored
\* handle is cleared only in a step that ends with the flag down.
C34_RunningHasModel ==
    /\ [](running => modelRef # NULL)
    /\ [][(~running /\ running') => modelRef' # NULL]_vars
    /\ [][(modelRef # NULL /\ modelRef' = NULL) => ~running']_vars

\* a start's load has just returned the handle now stored, and the session runs
C34_Witness ==
    /\ mounted /\ running
    /\ modelRef # NULL /\ loadReturned = modelRef
    /\ loopInflight = 1

\* C35: once the unmount cleanup has run, no later step sets the running flag,
\* schedules a loop iteration (timer, animation frame or native capture), or
\* stores a model handle or a camera stream.
C35_NothingRevivesAfterTeardown ==
    [][~mounted =>
         /\ running' => running
         /\ timers' \subseteq timers
         /\ rafs' \subseteq rafs
         /\ loopInflight' <= loopInflight
         /\ modelRef' \in {modelRef, NULL}
         /\ webStreamRef' \in {webStreamRef, NULL}
         /\ openStreams' \subseteq openStreams]_vars

\* C36: in the snapshot-only variant, whenever the loading flag is up on the
\* mounted screen it eventually comes down again (or the screen is unmounted),
\* so the classify button does not stay disabled forever.
C36_LoadingEventuallyClears ==
    (variant = "snapshot" /\ mounted /\ loading) ~> (~loading \/ ~mounted)

\* C37: in the auto-start variant, when no model load fails, a mounted session
\* whose camera is usable (web: stream stored and video playing; native: the
\* camera reported ready) and whose model is loaded eventually runs, with no
\* user command forced.
CameraUsable ==
    IF platform = "web" THEN webStreamRef # NULL /\ videoReady ELSE cameraReady
C37_AutoStartReachesRunning ==
    ([]~LoadFailed) =>
        ((variant = "auto" /\ mounted /\ CameraUsable /\ modelRef # NULL)
             ~> (running \/ ~mounted))

\* C38: preprocessing a decoded 3-channel 8-bit frame ends with a tensor of
\* shape [1, 224, 224, 3]; the division leaves every numerator alone and
\* multiplies the denominator by 255, the added dimension changes no value,
\* and every value of the final tensor lies in [0, 1].
C38_NormalizedTensor ==
    /\ [](prepStage = "normalized" =>
            /\ tensor.shape = <<1, 224, 224, 3>>
            /\ \A r \in 0..IMAGE_SIZE-1, q \in 0..IMAGE_SIZE-1, k \in 0..2 :
                   0 <= tensor.data[r][q][k] /\ tensor.data[r][q][k] <= tensor.den)
    /\ [][prepStage' = "divided" =>
            tensor'.data = tensor.data /\ tensor'.den = 255 * tensor.den]_vars
    /\ [][prepStage' = "normalized" =>
            tensor'.data = tensor.data /\ tensor'.den = tensor.den]_vars

\* a 1 x 2 frame has been preprocessed: the red channel runs from 0 up to 1
\* across the row, passing through values strictly between
C38_Witness ==
    /\ prepStage = "normalized"
    /\ tensor.shape = <<1, 224, 224, 3>>
    /\ tensor.data[0][0][0] = 0
    /\ tensor.data[0][IMAGE_SIZE-1][0] = tensor.den
    /\ 0 < tensor.data[0][1][0] /\ tensor.data[0][1][0] < tensor.den

====
